---- MODULE Spec2Model ----
(***************************************************************************)
(* Model of koonkie's LogFollower (log_follower.go): a follower that first *)
(* replays the compacted eventlog in windows of compactedBlockSize up to   *)
(* the end of the log as it was when the follower first looked, and then   *)
(* tails the live eventlog.                                                *)
(*                                                                         *)
(* The document service (repository.Documents) is the environment: the    *)
(* eventlog is a sequence of items with strictly increasing IDs, to which  *)
(* the environment appends at any time.  Every remote call is split in the *)
(* step that sends the request and the step that receives its reply (or    *)
(* its error), so that appends and other callers interleave with it.       *)
(***************************************************************************)
EXTENDS Integers, Sequences, FiniteSets

\* ------------------------------------------------------------------ bounds

\* Longest eventlog the environment builds.
MaxLog == 2
\* Number of goroutines that call GetNext in the concurrent specification.
NumCallers == 2

\* Number of PrometheusFollowerMetrics values made in one run.
MaxSinks == 3

\* ------------------------------------------------------- program constants

eventlogBatchSize == 100
compactedBlockSize == 500
MaxInt32 == 2147483647

\* ------------------------------------------------------------ input domains

\* Distance between the IDs of two consecutive eventlog items.
Gaps == {1, compactedBlockSize}
Types == {"article", "planning"}
\* FollowerOptions.DocType: "" means no filter.
DocTypes == {"", "article"}
\* FollowerOptions.StartAfter.
StartAfters == {0, 2, 501}
\* FollowerOptions.WaitDuration, a time.Duration (int64 nanoseconds), written
\* as whole milliseconds ms = hi * 2^31 + lo (0 <= lo < 2^31) plus the
\* nanoseconds left over: 250.5 ms, and 2^31 ms (one above the int32 maximum).
Durations == { [hi |-> 0, lo |-> 250, ns |-> 500000],
               [hi |-> 1, lo |-> 0, ns |-> 0] }
\* More of them, for the clamp alone: 0, under a millisecond, 250.5 ms, the
\* int32 maximum, one above it, 2^32 ms, 2^32 + 5 ms, 3 * 2^31 + 7 ms, and
\* the largest whole 2^31 ms a time.Duration holds.
WideDurations ==
    { [hi |-> 0, lo |-> 0, ns |-> 0],
      [hi |-> 0, lo |-> 0, ns |-> 999999],
      [hi |-> 0, lo |-> 250, ns |-> 500000],
      [hi |-> 0, lo |-> MaxInt32, ns |-> 0],
      [hi |-> 1, lo |-> 0, ns |-> 0],
      [hi |-> 2, lo |-> 0, ns |-> 0],
      [hi |-> 2, lo |-> 5, ns |-> 0],
      [hi |-> 3, lo |-> 7, ns |-> 1],
      [hi |-> 4294, lo |-> 0, ns |-> 0] }
\* What a failed remote call fails with.
Causes == {"unavailable", "context canceled"}

\* followerName, as given to NewPrometheusFollowerMetrics and WithName.
Names == {"a", "b"}
\* The state labels and the positions handed to SetPosition.
States == {"compact", "tail"}
Positions == {1, 2}

Callers == 1..NumCallers
\* The single consumer loop the follower is designed for.
SeqCallers == {1}

Nil == "nil"
Sink == "sink"
NoErr == [op |-> "", cause |-> ""]

Min(a, b) == IF a <= b THEN a ELSE b

VARIABLES
    opts,       \* the FollowerOptions the follower was constructed with
    lf,         \* the LogFollower struct
    log,        \* the service's eventlog
    pc,         \* where each caller is inside GetNext
    call,       \* per caller: the GetNext call in progress or last returned
    windows,    \* the compacted requests answered so far, in order
    tailLow,    \* answered tail requests with After below lf.endCompact (0, 1, 2 = more)
    nLatest,    \* latest-entry requests (After = -1) sent so far (0, 1, 2 = more)
    latestFailed, \* whether a latest-entry request has failed so far
    seen,       \* what the last GetState call returned (<<>>: not called yet)
    prom        \* the Prometheus side: the registry, the sinks, the gauge

vars == <<opts, lf, log, pc, call, windows, tailLow, nLatest, latestFailed,
          seen, prom>>

\* ------------------------------------------------------------- construction

\* time.Duration.Milliseconds: the whole milliseconds, nanoseconds dropped.
Milliseconds(d) == [hi |-> d.hi, lo |-> d.lo]

\* min(ms, math.MaxInt32) on int64, then the conversion int32(...), which keeps
\* the low 32 bits.
ClampWaitMut(ms) ==
    IF ms.hi % 2 = 0 THEN ms.lo ELSE ms.lo - MaxInt32 - 1
ClampWait(ms) ==
    IF ms.hi >= 1 THEN MaxInt32
    ELSE IF ms.hi = 0 THEN ms.lo
    ELSE IF ms.hi % 2 = 0 THEN ms.lo
    ELSE ms.lo - MaxInt32 - 1

NewLogFollower(o) ==
    [ docType        |-> o.DocType,
      position       |-> o.StartAfter,
      caughtUp       |-> o.CaughtUp,
      wait           |-> ClampWait(Milliseconds(o.WaitDuration)),
      metrics        |-> Nil,
      m              |-> 0,
      endCompactRead |-> FALSE,
      endCompact     |-> 0 ]

\* ------------------------------------------------------------------ the log

Item(id, t) == [Id |-> id, Type |-> t]

LastId(l) == IF Len(l) = 0 THEN 0 ELSE l[Len(l)].Id

RECURSIVE LogsOfLen(_)
LogsOfLen(n) ==
    IF n = 0 THEN { <<>> }
    ELSE { Append(l, Item(LastId(l) + g, t)) :
             l \in LogsOfLen(n - 1), g \in Gaps, t \in Types }

InitLogs == UNION { LogsOfLen(n) : n \in 0..(MaxLog - 1) }

FreshCall ==
    [ position |-> 0, caughtUp |-> FALSE, read |-> FALSE,
      reqs |-> <<>>, raw |-> <<>>, obs |-> <<>>, err |-> NoErr,
      items |-> <<>>, returned |-> FALSE ]

\* No collector registered, no sink made, nothing written to the gauge.
NoProm == [registered |-> FALSE, sinks |-> <<>>, series |-> {}, writes |-> {}]

\* A fresh follower constructed with one of the options O, and its service.
Start(O) ==
    /\ opts \in O
    /\ lf = NewLogFollower(opts)
    /\ seen = <<>>
    /\ prom = NoProm
    /\ log \in InitLogs
    /\ pc = [c \in Callers |-> "idle"]
    /\ call = [c \in Callers |-> FreshCall]
    /\ windows = <<>>
    /\ tailLow = 0
    /\ nLatest = 0
    /\ latestFailed = FALSE

AllOptions ==
    [ Metrics : {Nil, Sink}, DocType : DocTypes, StartAfter : StartAfters,
      CaughtUp : BOOLEAN, WaitDuration : Durations ]

Init == Start(AllOptions)

\* ---------------------------------------------------- the document service

\* What Eventlog answers to After = -1: the most recent event only.
LatestReply(l) == IF Len(l) = 0 THEN <<>> ELSE << l[Len(l)] >>

\* What Eventlog answers otherwise: the events after `after`, oldest first, at
\* most `batch` of them.
TailReply(l, after, batch) ==
    LET isAfter(it) == it.Id > after
        all == SelectSeq(l, isAfter)
    IN  SubSeq(all, 1, Min(Len(all), batch))

\* What CompactedEventlog answers: the events after `after` up to and
\* including `until`, of type `type` when one is given.  After is exclusive
\* as it is in Eventlog, and Until inclusive: the follower hands over from
\* the window that ends with Until = endCompact to the tail request with
\* After = endCompact.  The follower's own state does not depend on the reply.
CompactedReply(l, after, until, type) ==
    LET inWindow(it) == /\ it.Id > after
                        /\ it.Id <= until
                        /\ (type = "" \/ it.Type = type)
    IN  SelectSeq(l, inWindow)

\* ------------------------------------------------------------- the requests

Request(op, after, until, batch, waitMs, type) ==
    [ op |-> op, After |-> after, Until |-> until, BatchSize |-> batch,
      WaitMs |-> waitMs, Type |-> type ]

\* checkLogEnd: GetEventlogRequest{After: -1}.
LatestRequest == Request("Eventlog", -1, 0, 0, 0, "")

\* pollEventlog: GetEventlogRequest{After, BatchSize, WaitMs}.
TailRequestMut(f) ==
    Request("Eventlog", f.position - 1, 0, eventlogBatchSize, f.wait, "")
TailRequest(f) == Request("Eventlog", f.position, 0, eventlogBatchSize, f.wait, "")

\* pollCompactedEventlog: until := min(lf.endCompact, lf.position+compactedBlockSize).
WindowMut(f) == f.position + compactedBlockSize
Window(f) == Min(f.endCompact, f.position + compactedBlockSize)

\* pollCompactedEventlog: GetCompactedEventlogRequest{After, Until, Type}.
CompactedRequestMut(f) ==
    Request("CompactedEventlog", f.position, Window(f), 0, 0, "")
CompactedRequest(f) ==
    Request("CompactedEventlog", f.position, Window(f), 0, 0, f.docType)

IsLatest(r) == r.op = "Eventlog" /\ r.After = -1
IsTail(r) == r.op = "Eventlog" /\ r.After # -1
IsCompacted(r) == r.op = "CompactedEventlog"

\* fmt.Errorf("<operation>: %w", err).
WrapMut(op, cause) == [op |-> "", cause |-> cause]
Wrap(op, cause) == [op |-> op, cause |-> cause]

\* ------------------------------------------------------- the follower's code

\* checkLogEnd: lf.m.Lock() goes through when no one holds the mutex.
CanLockMut(f) == TRUE
CanLock(f) == f.m = 0

\* checkLogEnd: `if lf.endCompactRead { return nil }`, under the lock.
ResolvedNever(f) == FALSE
ResolvedAlways(f) == TRUE
Resolved(f) == f.endCompactRead

\* checkLogEnd after a reply: endCompact from the first item if there is one,
\* endCompactRead set, and the deferred Unlock.
LogEndRead(f, items) ==
    [f EXCEPT !.endCompact = IF Len(items) > 0 THEN items[1].Id ELSE f.endCompact,
              !.endCompactRead = TRUE,
              !.m = 0]

\* checkLogEnd after an error: returns before endCompactRead is set; the
\* deferred Unlock runs.
LogEndFailedMut(f) == [f EXCEPT !.endCompactRead = TRUE, !.m = 0]
LogEndFailed(f) == [f EXCEPT !.m = 0]

\* GetNext: `if lf.caughtUp` picks pollEventlog, else pollCompactedEventlog.
TailingMut(f) == f.position >= f.endCompact
Tailing(f) == f.caughtUp

\* pollEventlog: the items of the configured type, in order.
DocFilter(docType, raw) ==
    LET keep(it) == ~(docType # "" /\ it.Type # docType)
    IN  SelectSeq(raw, keep)

\* pollEventlog: the position moves to the last item received.
TailReadMut(f, raw) ==
    LET kept == DocFilter(f.docType, raw)
    IN  IF Len(kept) > 0 THEN [f EXCEPT !.position = kept[Len(kept)].Id] ELSE f
TailRead(f, raw) ==
    IF Len(raw) > 0 THEN [f EXCEPT !.position = raw[Len(raw)].Id] ELSE f

\* pollEventlog after an error: returns before anything is assigned.
TailFailed(f) == f

\* pollCompactedEventlog after a reply: the position moves to until, and the
\* follower has caught up when until reached endCompact.
CompactedReadMut(f, until) ==
    [f EXCEPT !.position = until,
              !.caughtUp = IF until > f.endCompact THEN TRUE ELSE f.caughtUp]
CompactedRead(f, until) ==
    [f EXCEPT !.position = until,
              !.caughtUp = IF until >= f.endCompact THEN TRUE ELSE f.caughtUp]

\* pollCompactedEventlog after an error: returns before anything is assigned.
CompactedFailedMut(f, until) == [f EXCEPT !.position = until]
CompactedFailed(f, until) == f

\* GetNext: the state label, and the report to the metrics sink if there is one.
StateLabel(f) == IF f.caughtUp THEN "tail" ELSE "compact"

Report(f, obs) ==
    IF f.metrics # Nil
    THEN Append(obs, [state |-> StateLabel(f), position |-> f.position])
    ELSE obs

\* GetState.
GetStateMut(f) == <<f.endCompact, f.caughtUp>>
GetState(f) == <<f.position, f.caughtUp>>

\* ---------------------------------------------------------------- actions

\* The call record of a GetNext that starts now.
Enter(f) ==
    [FreshCall EXCEPT !.position = f.position, !.caughtUp = f.caughtUp,
                      !.read = f.endCompactRead]

Sent(cl, r) == [cl EXCEPT !.reqs = Append(cl.reqs, r)]

Returned(cl, e, items, obs) ==
    [cl EXCEPT !.err = e, !.items = items, !.obs = obs, !.returned = TRUE]

Received(cl, raw) == [cl EXCEPT !.raw = raw]

LastReq(cl) == cl.reqs[Len(cl.reqs)]

\* GetNext -> checkLogEnd, the end of the log already read: lock, return nil.
CheckLogEndDone(c) ==
    /\ pc[c] = "idle"
    /\ CanLock(lf)
    /\ Resolved(lf)
    /\ call' = [call EXCEPT ![c] = Enter(lf)]
    /\ pc' = [pc EXCEPT ![c] = "poll"]
    /\ UNCHANGED <<seen, prom, opts, lf, log, windows, tailLow, nLatest, latestFailed>>

\* GetNext -> checkLogEnd, not read yet: lock, ask for the latest event.
CheckLogEndFetch(c) ==
    /\ pc[c] = "idle"
    /\ CanLock(lf)
    /\ ~Resolved(lf)
    /\ call' = [call EXCEPT ![c] = Sent(Enter(lf), LatestRequest)]
    /\ lf' = [lf EXCEPT !.m = c]
    /\ nLatest' = Min(nLatest + 1, 2)
    /\ pc' = [pc EXCEPT ![c] = "readEnd"]
    /\ UNCHANGED <<seen, prom, opts, log, windows, tailLow, latestFailed>>

\* checkLogEnd: the reply arrives.
CheckLogEndReply(c) ==
    /\ pc[c] = "readEnd"
    /\ lf' = LogEndRead(lf, LatestReply(log))
    /\ pc' = [pc EXCEPT ![c] = "poll"]
    /\ UNCHANGED <<seen, prom, opts, log, call, windows, tailLow, nLatest, latestFailed>>

\* checkLogEnd: the request fails; GetNext returns the error.
CheckLogEndError(c) ==
    /\ pc[c] = "readEnd"
    /\ \E cause \in Causes :
          call' = [call EXCEPT ![c] =
                      Returned(@, Wrap("read last event in eventlog", cause),
                               <<>>, @.obs)]
    /\ lf' = LogEndFailed(lf)
    /\ latestFailed' = TRUE
    /\ pc' = [pc EXCEPT ![c] = "idle"]
    /\ UNCHANGED <<seen, prom, opts, log, windows, tailLow, nLatest>>

\* GetNext -> pollEventlog: the tail request is sent.
PollEventlogSend(c) ==
    /\ pc[c] = "poll"
    /\ Tailing(lf)
    /\ call' = [call EXCEPT ![c] = Sent(@, TailRequest(lf))]
    /\ pc' = [pc EXCEPT ![c] = "tail"]
    /\ UNCHANGED <<seen, prom, opts, lf, log, windows, tailLow, nLatest, latestFailed>>

\* pollEventlog: the reply arrives; GetNext reports and returns the items.
PollEventlogReply(c) ==
    /\ pc[c] = "tail"
    /\ LET req == LastReq(call[c])
           raw == TailReply(log, req.After, req.BatchSize)
           f   == TailRead(lf, raw)
       IN  /\ lf' = f
           /\ call' = [call EXCEPT ![c] =
                          Returned(Received(@, raw), NoErr,
                                   DocFilter(lf.docType, raw), Report(f, @.obs))]
           /\ tailLow' = IF req.After < lf.endCompact
                         THEN Min(tailLow + 1, 2) ELSE tailLow
    /\ pc' = [pc EXCEPT ![c] = "idle"]
    /\ UNCHANGED <<seen, prom, opts, log, windows, nLatest, latestFailed>>

\* pollEventlog: the request fails; GetNext returns the error.
PollEventlogError(c) ==
    /\ pc[c] = "tail"
    /\ \E cause \in Causes :
          call' = [call EXCEPT ![c] =
                      Returned(@, Wrap("poll eventlog", cause), <<>>, @.obs)]
    /\ lf' = TailFailed(lf)
    /\ pc' = [pc EXCEPT ![c] = "idle"]
    /\ UNCHANGED <<seen, prom, opts, log, windows, tailLow, nLatest, latestFailed>>

\* GetNext -> pollCompactedEventlog: the compacted request is sent.
PollCompactedSend(c) ==
    /\ pc[c] = "poll"
    /\ ~Tailing(lf)
    /\ call' = [call EXCEPT ![c] = Sent(@, CompactedRequest(lf))]
    /\ pc' = [pc EXCEPT ![c] = "compacted"]
    /\ UNCHANGED <<seen, prom, opts, lf, log, windows, tailLow, nLatest, latestFailed>>

\* pollCompactedEventlog: the reply arrives; GetNext reports and returns the
\* items as received.
PollCompactedReply(c) ==
    /\ pc[c] = "compacted"
    /\ LET req == LastReq(call[c])
           raw == CompactedReply(log, req.After, req.Until, req.Type)
           f   == CompactedRead(lf, req.Until)
       IN  /\ lf' = f
           /\ call' = [call EXCEPT ![c] =
                          Returned(Received(@, raw), NoErr, raw, Report(f, @.obs))]
           /\ windows' = Append(windows, [After |-> req.After, Until |-> req.Until])
    /\ pc' = [pc EXCEPT ![c] = "idle"]
    /\ UNCHANGED <<seen, prom, opts, log, tailLow, nLatest, latestFailed>>

\* pollCompactedEventlog: the request fails; GetNext returns the error.
PollCompactedError(c) ==
    /\ pc[c] = "compacted"
    /\ \E cause \in Causes :
          call' = [call EXCEPT ![c] =
                      Returned(@, Wrap("poll compacted eventlog", cause),
                               <<>>, @.obs)]
    /\ lf' = CompactedFailed(lf, LastReq(call[c]).Until)
    /\ pc' = [pc EXCEPT ![c] = "idle"]
    /\ UNCHANGED <<seen, prom, opts, log, windows, tailLow, nLatest, latestFailed>>

\* The service appends an event.
AppendEvent ==
    /\ Len(log) < MaxLog
    /\ \E g \in Gaps, t \in Types :
          log' = Append(log, Item(LastId(log) + g, t))
    /\ UNCHANGED <<seen, prom, opts, lf, pc, call, windows, tailLow, nLatest, latestFailed>>

\* One caller's step inside GetNext, once it is past the lock.
InCall(c) ==
    \/ CheckLogEndReply(c)
    \/ CheckLogEndError(c)
    \/ PollEventlogSend(c)
    \/ PollEventlogReply(c)
    \/ PollEventlogError(c)
    \/ PollCompactedSend(c)
    \/ PollCompactedReply(c)
    \/ PollCompactedError(c)

\* A single consumer loop: one GetNext at a time, again and again, while the
\* service appends events.
Next ==
    \/ AppendEvent
    \/ \E c \in SeqCallers :
          CheckLogEndDone(c) \/ CheckLogEndFetch(c) \/ InCall(c)

Spec == Init /\ [][Next]_vars

\* Several goroutines call GetNext on the same fresh follower at the same
\* time, once each.  Outside checkLogEnd nothing is synchronised: a caller
\* reads lf.position and lf.caughtUp when it sends its request and writes them
\* when the reply arrives, in any interleaving with the other callers.
NextConc ==
    \E c \in Callers :
        \/ ~call[c].returned /\ CheckLogEndDone(c)
        \/ ~call[c].returned /\ CheckLogEndFetch(c)
        \/ InCall(c)

ConcSpec == Init /\ [][NextConc]_vars

\* GetState is called, at any moment: before the first GetNext, between two
\* calls or while one waits for its reply.
GetStateCall ==
    /\ seen' = GetState(lf)
    /\ UNCHANGED <<opts, lf, log, pc, call, windows, tailLow, nLatest,
                   latestFailed, prom>>

NextRead ==
    \/ GetStateCall
    \/ AppendEvent
    \/ \E c \in SeqCallers :
          CheckLogEndDone(c) \/ CheckLogEndFetch(c) \/ InCall(c)

ReadSpec == Init /\ [][NextRead]_vars

\* A step of the consumer loop in which a remote call fails.
Fails(c) ==
    \/ CheckLogEndError(c)
    \/ PollEventlogError(c)
    \/ PollCompactedError(c)

\* The consumer loop keeps calling GetNext, and every call returns: a step
\* of GetNext that can be taken is taken.
LiveSpec ==
    /\ Init
    /\ [][Next]_vars
    /\ WF_vars(\E c \in SeqCallers :
                  CheckLogEndDone(c) \/ CheckLogEndFetch(c) \/ InCall(c))

\* --------------------------------------------------------- the metrics sink

\* NewPrometheusFollowerMetrics(reg, followerName): the returned struct holds
\* the gauge; its name field is not in the literal.
NewSink(followerName) == [given |-> followerName, name |-> ""]

\* WithName(followerName): a copy with the name set, on the same gauge.
NamedSink(followerName) == [given |-> followerName, name |-> followerName]

\* logPosition.WithLabelValues(p.name, state).Set(position): the series of
\* the two labels holds the position.
SetSeries(series, follower, state, position) ==
    { x \in series : ~(x.follower = follower /\ x.state = state) }
        \cup { [follower |-> follower, state |-> state, value |-> position] }

\* NewPrometheusFollowerMetrics: the gauge is registered, the sink returned.
NewPrometheusFollowerMetrics ==
    /\ ~prom.registered
    /\ \E n \in Names :
          prom' = [prom EXCEPT !.registered = TRUE,
                               !.sinks = Append(@, NewSink(n))]
    /\ UNCHANGED <<opts, lf, log, pc, call, windows, tailLow, nLatest,
                   latestFailed, seen>>

\* NewPrometheusFollowerMetrics on a registry that holds the gauge already:
\* reg.Register fails, no sink is returned.
NewPrometheusFollowerMetricsError ==
    /\ prom.registered
    /\ UNCHANGED vars

\* p.WithName(followerName) on a sink made before.
WithName ==
    /\ Len(prom.sinks) >= 1
    /\ Len(prom.sinks) < MaxSinks
    /\ \E n \in Names :
          prom' = [prom EXCEPT !.sinks = Append(@, NamedSink(n))]
    /\ UNCHANGED <<opts, lf, log, pc, call, windows, tailLow, nLatest,
                   latestFailed, seen>>

\* p.SetPosition(state, position) on a sink made before.
SetPosition ==
    /\ \E i \in 1..Len(prom.sinks), st \in States, pos \in Positions :
          prom' = [prom EXCEPT
                     !.series = SetSeries(@, prom.sinks[i].name, st, pos),
                     !.writes = @ \cup { [by |-> i, state |-> st,
                                          follower |-> prom.sinks[i].name] }]
    /\ UNCHANGED <<opts, lf, log, pc, call, windows, tailLow, nLatest,
                   latestFailed, seen>>

NextMetrics ==
    \/ NewPrometheusFollowerMetrics
    \/ NewPrometheusFollowerMetricsError
    \/ WithName
    \/ SetPosition

\* The sinks alone, beside one follower that is left alone.
MetricsOptions ==
    [ Metrics : {Sink}, DocType : {""}, StartAfter : {0},
      CaughtUp : {FALSE}, WaitDuration : Durations ]

InitMetrics == Start(MetricsOptions) /\ log = <<>>

MetricsSpec == InitMetrics /\ [][NextMetrics]_vars

\* The consumer loop on followers constructed with every WaitDuration of
\* WideDurations.
WaitOptions ==
    [ Metrics : {Nil}, DocType : {""}, StartAfter : {0},
      CaughtUp : BOOLEAN, WaitDuration : WideDurations ]

InitWait == Start(WaitOptions)

WaitSpec == InitWait /\ [][Next]_vars

\* ------------------------------------------------------------------ claims

\* GetNext has returned to caller c and c has not called again: lf is the
\* state GetState reports after the call, call[c] holds what it was before
\* the call and what the call did.
Done(c) == pc[c] = "idle" /\ call[c].returned
Ok(c) == Done(c) /\ call[c].err = NoErr
Failed(c) == Done(c) /\ call[c].err # NoErr

\* The requests of a call that are not the latest-entry request.
DataReqs(cl) == SelectSeq(cl.reqs, LAMBDA r : ~IsLatest(r))

\* C1: after a successful GetNext the position is at least the position
\* before the call, and never below the StartAfter the follower was given.
C1_MonotonicPosition ==
    \A c \in SeqCallers :
        Ok(c) => /\ lf.position >= call[c].position
                 /\ lf.position >= opts.StartAfter

\* How many answered requests cover event `id`, a compacted request read as
\* covering After <= ID < Until and a tail request as covering ID > After.
RECURSIVE CoverHalfOpen(_, _)
CoverHalfOpen(ws, id) ==
    IF Len(ws) = 0 THEN 0
    ELSE (IF ws[1].After <= id /\ id < ws[1].Until THEN 1 ELSE 0)
         + CoverHalfOpen(Tail(ws), id)

\* The same with a compacted request read as covering After < ID <= Until.
RECURSIVE CoverAfterUntil(_, _)
CoverAfterUntil(ws, id) ==
    IF Len(ws) = 0 THEN 0
    ELSE (IF ws[1].After < id /\ id <= ws[1].Until THEN 1 ELSE 0)
         + CoverAfterUntil(Tail(ws), id)

\* A follower started in Compacted mode has reached Tailing mode, and the
\* eventlog holds the event whose ID is the boundary.
SwitchedAtEvent ==
    /\ ~opts.CaughtUp
    /\ lf.caughtUp
    /\ \E i \in 1..Len(log) : log[i].Id = lf.endCompact

C3_NoAdvanceOnFailure ==
    \A c \in SeqCallers :
        Failed(c) => GetState(lf) = <<call[c].position, call[c].caughtUp>>

\* C3's case: the boundary was resolved in this very call and the compacted
\* request then failed on a cancelled context.
C3_Witness ==
    /\ Failed(1)
    /\ ~call[1].read
    /\ call[1].err = Wrap("poll compacted eventlog", "context canceled")
    /\ lf.endCompact > lf.position

\* A step in which caller c sends a compacted request.
SendsCompacted(c) == pc[c] # "compacted" /\ pc'[c] = "compacted"

\* C4: once the mode is Tailing it stays Tailing over every later step,
\* failing calls included, and no compacted request is sent from then on; a
\* follower constructed with CaughtUp = true never sends a compacted request.
C4_OneWay ==
    /\ [][ lf.caughtUp =>
             /\ lf'.caughtUp
             /\ \A c \in SeqCallers : ~SendsCompacted(c) ]_vars
    /\ [](opts.CaughtUp =>
             /\ windows = <<>>
             /\ \A c \in SeqCallers :
                   \A i \in 1..Len(call[c].reqs) : ~IsCompacted(call[c].reqs[i]))

\* C4's case: a follower that started in Compacted mode, switched, and then
\* had a tail request fail: it is still Tailing.
C4_Witness ==
    /\ ~opts.CaughtUp
    /\ lf.caughtUp
    /\ Failed(1)
    /\ call[1].caughtUp
    /\ call[1].err.op = "poll eventlog"

\* The callers whose call sent a latest-entry request.
Resolvers == { c \in Callers : \E i \in 1..Len(call[c].reqs) : IsLatest(call[c].reqs[i]) }

\* C5: with several goroutines in GetNext on a fresh follower and no
\* latest-entry request failing, at most one latest-entry request is sent in
\* all, exactly one once the boundary is resolved, and every caller that came
\* past checkLogEnd without sending it saw the flag set.
C5_ResolveOnce ==
    ~latestFailed =>
        /\ nLatest <= 1
        /\ Cardinality(Resolvers) = nLatest
        /\ lf.endCompactRead => nLatest = 1
        /\ \A c \in Callers :
              (pc[c] \in {"poll", "tail", "compacted"} \/ call[c].returned)
                  => (c \in Resolvers \/ call[c].read)

\* C5's case: a second caller entered checkLogEnd while the first was still
\* inside GetNext, and both are past it.
C5_Witness ==
    /\ ~latestFailed
    /\ \E c, d \in Callers :
          /\ c # d
          /\ c \in Resolvers
          /\ pc[c] \in {"poll", "tail", "compacted"}
          /\ pc[d] \in {"poll", "tail", "compacted"}
          /\ call[d].read

\* C6: a GetNext whose boundary resolution failed leaves endCompactRead unset
\* and has sent nothing but the latest-entry request; and every GetNext that
\* starts with the flag unset sends the latest-entry request first (one that
\* starts with it set does not send it at all).
C6_ResolveRetried ==
    \A c \in SeqCallers :
        /\ (Failed(c) /\ call[c].err.op = "read last event in eventlog")
              => /\ ~lf.endCompactRead
                 /\ call[c].reqs = << LatestRequest >>
        /\ (pc[c] # "idle" \/ call[c].returned)
              => IF call[c].read
                 THEN \A i \in 1..Len(call[c].reqs) : ~IsLatest(call[c].reqs[i])
                 ELSE /\ Len(call[c].reqs) >= 1
                      /\ IsLatest(call[c].reqs[1])
                      /\ \A i \in 2..Len(call[c].reqs) : ~IsLatest(call[c].reqs[i])

\* C6's case: the resolution failed, was tried again by the next call and
\* failed again.
C6_Witness ==
    /\ Failed(1)
    /\ call[1].err.op = "read last event in eventlog"
    /\ nLatest = 2

\* The first GetNext of a follower started in Compacted mode has returned
\* without error, and the eventlog is still empty (so it was when the
\* boundary was resolved).
FirstCallOnEmptyLog(c) ==
    /\ Ok(c)
    /\ ~call[c].read
    /\ ~call[c].caughtUp
    /\ Len(log) = 0

\* C7: when the eventlog is empty at resolution the boundary is StartAfter,
\* and the first GetNext of a follower started in Compacted mode returns no
\* items, leaves the position at StartAfter and switches to Tailing.
C7_EmptyLogBoundary ==
    \A c \in SeqCallers :
        FirstCallOnEmptyLog(c) =>
            /\ lf.endCompact = opts.StartAfter
            /\ call[c].items = <<>>
            /\ GetState(lf) = <<opts.StartAfter, TRUE>>

\* C8: with a sink in FollowerOptions.Metrics every successful GetNext calls
\* it exactly once, with the label of the mode and the position after the
\* call; a failed GetNext, or one without a sink, reports nothing.
C8_MetricsReported ==
    \A c \in SeqCallers :
        Done(c) =>
            call[c].obs =
                IF Ok(c) /\ opts.Metrics # Nil
                THEN << [state |-> IF lf.caughtUp THEN "tail" ELSE "compact",
                         position |-> lf.position] >>
                ELSE <<>>

\* C9: a successful GetNext in Compacted mode at position p with boundary b
\* sends exactly one data request, the compacted request with After = p and
\* Until = min(b, p + 500); the position is then min(b, p + 500), whatever
\* came back, and the mode is Tailing exactly when min(b, p + 500) >= b.
\* From StartAfter = 0 with b = 1000 the first window ends at 500 in
\* Compacted mode and the second at 1000 in Tailing mode.
C9_WindowCorrect ==
    \A c \in SeqCallers :
        (Ok(c) /\ ~call[c].caughtUp) =>
            LET p == call[c].position
                b == lf.endCompact
                u == IF b <= p + 500 THEN b ELSE p + 500
            IN  /\ DataReqs(call[c]) =
                       << Request("CompactedEventlog", p, u, 0, 0, opts.DocType) >>
                /\ lf.position = u
                /\ lf.caughtUp <=> (u >= b)
                /\ (opts.StartAfter = 0 /\ b = 1000) =>
                       /\ Len(windows) \in {1, 2}
                       /\ Len(windows) = 1 => GetState(lf) = <<500, FALSE>>
                       /\ Len(windows) = 2 => GetState(lf) = <<1000, TRUE>>

\* C9's case: boundary 1000 from position 0, the second window answered with
\* no items.
C9_Witness ==
    /\ Ok(1)
    /\ ~call[1].caughtUp
    /\ opts.StartAfter = 0
    /\ lf.endCompact = 1000
    /\ windows = << [After |-> 0, Until |-> 500], [After |-> 500, Until |-> 1000] >>
    /\ call[1].items = <<>>
    /\ GetState(lf) = <<1000, TRUE>>

\* The items of `raw` whose type is `docType` (all of them for ""), in order.
RECURSIVE OfType(_, _)
OfType(raw, docType) ==
    IF Len(raw) = 0 THEN <<>>
    ELSE IF docType = "" \/ raw[1].Type = docType
         THEN << raw[1] >> \o OfType(Tail(raw), docType)
         ELSE OfType(Tail(raw), docType)

\* C10: a successful GetNext in Tailing mode returns the received items of
\* the configured type, in the order received; the position becomes the ID
\* of the last item received, filtered out or not, and is unchanged when
\* nothing was received.
C10_TailFilterAdvance ==
    \A c \in SeqCallers :
        (Ok(c) /\ call[c].caughtUp) =>
            /\ call[c].items = OfType(call[c].raw, opts.DocType)
            /\ lf.position = IF Len(call[c].raw) = 0 THEN call[c].position
                             ELSE call[c].raw[Len(call[c].raw)].Id

\* C10's case: two items received, the first kept, the last dropped by the
\* filter, and the position at the dropped one.
C10_Witness ==
    /\ Ok(1)
    /\ call[1].caughtUp
    /\ opts.DocType = "article"
    /\ Len(call[1].raw) = 2
    /\ Len(call[1].items) = 1
    /\ call[1].raw[2].Type # "article"
    /\ lf.position = call[1].raw[2].Id
    /\ lf.position > call[1].position

\* C11: a successful GetNext in Compacted mode sends the configured type in
\* its compacted request and returns the items exactly as received; one in
\* Tailing mode sends no type and returns the received items of the
\* configured type.
C11_FilterAsymmetry ==
    \A c \in SeqCallers :
        Ok(c) =>
            /\ Len(DataReqs(call[c])) = 1
            /\ IF call[c].caughtUp
               THEN /\ IsTail(DataReqs(call[c])[1])
                    /\ DataReqs(call[c])[1].Type = ""
                    /\ call[c].items = OfType(call[c].raw, opts.DocType)
               ELSE /\ IsCompacted(DataReqs(call[c])[1])
                    /\ DataReqs(call[c])[1].Type = opts.DocType
                    /\ call[c].items = call[c].raw

\* C11's case: a compacted call with the filter "article" over a window that
\* holds an event of another type: one item came back, the other was never
\* sent by the service.
C11_Witness ==
    /\ Ok(1)
    /\ ~call[1].caughtUp
    /\ opts.DocType = "article"
    /\ Len(call[1].items) = 1
    /\ \E i \in 1..Len(log) :
          /\ log[i].Type # "article"
          /\ log[i].Id > call[1].position
          /\ log[i].Id <= lf.position

\* A step in which caller c sends the latest-entry request.
SendsLatest(c) == pc[c] # "readEnd" /\ pc'[c] = "readEnd"

\* C12: once the boundary is resolved, no step changes endCompact or the
\* flag, whatever is appended to the eventlog and whatever GetNext does, and
\* no latest-entry request is sent again.
C12_BoundaryImmutable ==
    [][ lf.endCompactRead =>
          /\ lf'.endCompactRead
          /\ lf'.endCompact = lf.endCompact
          /\ \A c \in SeqCallers : ~SendsLatest(c) ]_vars

\* C12's case: the eventlog grew past the boundary after the resolution, and
\* a later GetNext, which found the boundary resolved, has returned.
C12_Witness ==
    /\ lf.endCompactRead
    /\ LastId(log) > lf.endCompact
    /\ Ok(1)
    /\ call[1].read
    /\ lf.position > lf.endCompact

\* No GetNext has been called yet.
Untouched == \A c \in Callers : pc[c] = "idle" /\ ~call[c].returned

\* C13: a step that hands out a new GetState result hands out the current
\* (position, caughtUp) and changes nothing of the follower, sends no request
\* and touches no call in progress; and whatever GetState returned before the
\* first GetNext is (StartAfter, CaughtUp).
C13_GetStatePure ==
    /\ [][ seen' # seen =>
             /\ seen' = <<lf.position, lf.caughtUp>>
             /\ UNCHANGED <<opts, lf, log, pc, call, windows, tailLow,
                            nLatest, latestFailed>> ]_vars
    /\ []((Untouched /\ seen # <<>>) => seen = <<opts.StartAfter, opts.CaughtUp>>)

\* C13's case: GetState was called on a follower with StartAfter = 501 before
\* any GetNext, and the boundary is not resolved.
C13_Witness ==
    /\ Untouched
    /\ ~lf.endCompactRead
    /\ opts.StartAfter = 501
    /\ seen = <<501, opts.CaughtUp>>

\* The whole milliseconds of d are at most the int32 maximum.
FitsInt32(d) == d.hi = 0

\* C14: the wait the follower holds, and the WaitMs of every tail request it
\* sends, is the WaitDuration in whole milliseconds when that is at most
\* 2^31 - 1 and 2^31 - 1 otherwise; it is never negative.
C14_WaitClamped ==
    LET want == IF FitsInt32(opts.WaitDuration)
                THEN opts.WaitDuration.lo ELSE MaxInt32
    IN  /\ lf.wait = want
        /\ lf.wait >= 0 /\ lf.wait <= MaxInt32
        /\ \A c \in SeqCallers :
              \A i \in 1..Len(call[c].reqs) :
                  IsTail(call[c].reqs[i]) => call[c].reqs[i].WaitMs = want

\* C14's case: a tail request of a follower constructed with 2^32 + 5 ms,
\* which a bare int32 conversion would turn into 5.
C14_Witness ==
    /\ opts.WaitDuration = [hi |-> 2, lo |-> 5, ns |-> 0]
    /\ pc[1] = "tail"
    /\ LastReq(call[1]).WaitMs = MaxInt32

\* The successful calls a follower started at s needs to reach boundary b.
CallsToCatchUp(s, b) ==
    IF s > b THEN 1
    ELSE IF b - s <= 500 THEN 1
    ELSE (b - s + 499) \div 500

\* C15, the count: a follower started in Compacted mode is Tailing exactly
\* when max(1, ceil((boundary - StartAfter) / 500)) compacted requests have
\* been answered (one when StartAfter is past the boundary), items or no
\* items, and no compacted request is answered beyond that number.
C15_CatchUpCount ==
    ~opts.CaughtUp =>
        IF ~lf.endCompactRead
        THEN windows = <<>> /\ ~lf.caughtUp
        ELSE /\ Len(windows) <= CallsToCatchUp(opts.StartAfter, lf.endCompact)
             /\ lf.caughtUp <=>
                  Len(windows) = CallsToCatchUp(opts.StartAfter, lf.endCompact)

\* C15, the progress: when remote calls stop failing, the follower reaches
\* Tailing mode.
C15_CatchUpLive ==
    \/ []<><<\E c \in SeqCallers : Fails(c)>>_vars
    \/ <>lf.caughtUp

\* C15: the count in every state, and the progress.
C15_CatchUp == []C15_CatchUpCount /\ C15_CatchUpLive

\* C15's case: 1000 events to replay, two windows answered without a single
\* item, and the follower is Tailing.
C15_Witness ==
    /\ ~opts.CaughtUp
    /\ opts.StartAfter = 0
    /\ lf.endCompact = 1000
    /\ Len(windows) = 2
    /\ lf.caughtUp
    /\ opts.DocType = "article"
    /\ \A i \in 1..Len(log) : log[i].Type # "article"

\* The operation name GetNext wraps the failure of request r with.
Context(r) ==
    IF IsLatest(r) THEN "read last event in eventlog"
    ELSE IF IsTail(r) THEN "poll eventlog"
    ELSE "poll compacted eventlog"

\* C16: a GetNext call sends at most one latest-entry request, before
\* anything else, and at most one data request; when it returns an error the
\* error is that of the last request it sent, wrapped with that request's
\* operation, with its cause kept; and a call that has returned without error
\* has had every request answered.
C16_NoRetry ==
    \A c \in SeqCallers :
        LET rs == call[c].reqs
        IN  /\ Len(rs) <= 2
            /\ Len(DataReqs(call[c])) <= 1
            /\ Len(rs) = 2 => IsLatest(rs[1]) /\ ~IsLatest(rs[2])
            /\ Failed(c) =>
                  /\ Len(rs) >= 1
                  /\ call[c].err.op = Context(rs[Len(rs)])
                  /\ call[c].err.cause \in Causes
                  /\ call[c].items = <<>>
            /\ Ok(c) => Len(DataReqs(call[c])) = 1

\* C16's case: the resolution succeeded and the tail request after it failed:
\* two requests, no third.
C16_Witness ==
    /\ Failed(1)
    /\ Len(call[1].reqs) = 2
    /\ IsLatest(call[1].reqs[1])
    /\ IsTail(call[1].reqs[2])
    /\ call[1].err = [op |-> "poll eventlog", cause |-> "unavailable"]

\* C17: every observation a sink writes carries the follower label the sink
\* was created with (by NewPrometheusFollowerMetrics or by WithName), so two
\* sinks created with different names never write the same (follower,
\* state) series.
C17_FollowerLabel ==
    /\ \A w \in prom.writes : w.follower = prom.sinks[w.by].given
    /\ \A v, w \in prom.writes :
          prom.sinks[v.by].given # prom.sinks[w.by].given
              => <<v.follower, v.state>> # <<w.follower, w.state>>

\* The call of caller c has returned with success, its request a compacted one.
CompactedOk(c) ==
    /\ Ok(c)
    /\ Len(call[c].reqs) >= 1
    /\ IsCompacted(LastReq(call[c]))

\* A step in which caller c enters GetNext.
Enters(c) == pc[c] = "idle" /\ pc'[c] # "idle"

\* C18: the step that changes the mode from Compacted to Tailing leaves the
\* position equal to the boundary; after a successful compacted fetch the
\* position equals the boundary if the mode is Tailing and is strictly below
\* it if the mode is still Compacted; the GetNext call entered right after
\* the switching call starts at the boundary, and the tail request of a call
\* has After = the position the call started at.
C18_SwitchAtBoundary ==
    /\ [][ ~lf.caughtUp /\ lf'.caughtUp
             => lf'.position = lf'.endCompact ]_vars
    /\ [](\A c \in SeqCallers :
             CompactedOk(c) =>
                 IF lf.caughtUp THEN lf.position = lf.endCompact
                                ELSE lf.position < lf.endCompact)
    /\ [][ \A c \in SeqCallers :
             CompactedOk(c) /\ lf.caughtUp /\ Enters(c)
                 => call'[c].position = lf.endCompact ]_vars
    /\ [](\A c \in SeqCallers :
             pc[c] = "tail" =>
                 /\ IsTail(LastReq(call[c]))
                 /\ LastReq(call[c]).After = call[c].position)

\* C18's case: two compacted fetches up to the boundary 1000, and the tail
\* request of the next call in flight with After = 1000.
C18_Witness ==
    /\ ~opts.CaughtUp
    /\ Len(windows) = 2
    /\ windows[2].Until = 1000
    /\ lf.endCompact = 1000
    /\ tailLow = 0
    /\ pc[1] = "tail"
    /\ call[1].position = 1000
    /\ LastReq(call[1]).After = 1000

\* The window [After, Until] is well formed below the boundary `end`.
WellFormed(w, end) ==
    /\ w.After <= w.Until
    /\ w.Until <= end
    /\ w.Until - w.After <= compactedBlockSize

\* The Until of the last answered compacted request, StartAfter if none.
Frontier == IF windows = <<>> THEN opts.StartAfter ELSE windows[Len(windows)].Until

\* C19: every compacted request, answered or in flight, has
\* After <= Until <= boundary and Until - After <= 500, and its After is the
\* Until of the answered compacted request before it (StartAfter for the
\* first).
C19_WellFormedWindows ==
    /\ \A i \in 1..Len(windows) :
          /\ WellFormed(windows[i], lf.endCompact)
          /\ windows[i].After =
                IF i = 1 THEN opts.StartAfter ELSE windows[i - 1].Until
    /\ \A c \in SeqCallers :
          pc[c] = "compacted" =>
              /\ WellFormed(LastReq(call[c]), lf.endCompact)
              /\ LastReq(call[c]).After = Frontier

\* C20: whenever a caller has issued a compacted or a tail request, a
\* latest-entry request has been sent and answered with success before; and a
\* caller that found the end of the log not read asked for it first.  It
\* holds for every caller of concurrent GetNext calls, after failed
\* resolutions, and for followers constructed with CaughtUp = true.
C20_ResolveFirst ==
    \A c \in Callers :
        /\ DataReqs(call[c]) # <<>> =>
              /\ lf.endCompactRead
              /\ nLatest >= 1
              /\ \E d \in Callers :
                    /\ Len(call[d].reqs) >= 1
                    /\ IsLatest(call[d].reqs[1])
                    /\ pc[d] # "readEnd"
                    /\ ~(Failed(d) /\ Len(call[d].reqs) = 1)
        /\ pc[c] \in {"tail", "compacted"} => DataReqs(call[c]) # <<>>
        /\ Len(call[c].reqs) >= 1 /\ ~call[c].read => IsLatest(call[c].reqs[1])
        /\ \A i \in 2..Len(call[c].reqs) : ~IsLatest(call[c].reqs[i])

\* C20's case: a follower constructed with CaughtUp = true; one caller's
\* resolution failed, the other caller resolved and has its tail request in
\* flight.
C20_Witness ==
    /\ opts.CaughtUp
    /\ Failed(1)
    /\ Len(call[1].reqs) = 1
    /\ IsLatest(call[1].reqs[1])
    /\ pc[2] = "tail"
    /\ Len(call[2].reqs) = 2
    /\ IsLatest(call[2].reqs[1])
    /\ IsTail(call[2].reqs[2])
    /\ lf.endCompactRead
====
